---------------------------- MODULE Spec2Model ----------------------------
(***************************************************************************)
(* Model of the weplanx OpenAPI gateway client (src/client/client.go):     *)
(* the request builder (R, SetHeaders, SetQuery, SetData), the signer      *)
(* (SetAuthorization), Send and the endpoint methods.                      *)
(*                                                                         *)
(* Go strings and byte slices are sequences of byte values, so that        *)
(* lower-casing, byte-order sorting, escaping and concatenation are        *)
(* computed the way the code computes them.                                *)
(***************************************************************************)
EXTENDS Integers, Sequences, FiniteSets, TLC

\* Largest clock reading (seconds since the epoch) the model explores.
MaxClock == 1

---------------------------------------------------------------------------
(* String literals of the source, as byte sequences.                       *)

\* "accept"
S_accept == <<97, 99, 99, 101, 112, 116>>
\* "Accept"
S_Accept == <<65, 99, 99, 101, 112, 116>>
\* "source"
S_source == <<115, 111, 117, 114, 99, 101>>
\* "apigw test"
S_apigw_test == <<97, 112, 105, 103, 119, 32, 116, 101, 115, 116>>
\* "x-date"
S_x_date == <<120, 45, 100, 97, 116, 101>>
\* "application/json"
S_application_json == <<97, 112, 112, 108, 105, 99, 97, 116, 105, 111, 110, 47, 106, 115, 111, 110>>
\* "Authorization"
S_Authorization == <<65, 117, 116, 104, 111, 114, 105, 122, 97, 116, 105, 111, 110>>
\* "GET"
S_GET == <<71, 69, 84>>
\* "/"
S_root == <<47>>
\* "/ip"
S_ip == <<47, 105, 112>>
\* "/geo/countries"
S_geo_countries == <<47, 103, 101, 111, 47, 99, 111, 117, 110, 116, 114, 105, 101, 115>>
\* "/geo/states"
S_geo_states == <<47, 103, 101, 111, 47, 115, 116, 97, 116, 101, 115>>
\* "/geo/cities"
S_geo_cities == <<47, 103, 101, 111, 47, 99, 105, 116, 105, 101, 115>>
\* "value"
S_value == <<118, 97, 108, 117, 101>>
\* "fields"
S_fields == <<102, 105, 101, 108, 100, 115>>
\* "country"
S_country == <<99, 111, 117, 110, 116, 114, 121>>
\* "state"
S_state == <<115, 116, 97, 116, 101>>
\* 'hmac id="'
S_hmac_id == <<104, 109, 97, 99, 32, 105, 100, 61, 34>>
\* '", algorithm="hmac-sha256", headers="'
S_algorithm == <<34, 44, 32, 97, 108, 103, 111, 114, 105, 116, 104, 109, 61, 34, 104, 109, 97, 99, 45, 115, 104, 97, 50, 53, 54, 34, 44, 32, 104, 101, 97, 100, 101, 114, 115, 61, 34>>
\* '", signature="'
S_signature == <<34, 44, 32, 115, 105, 103, 110, 97, 116, 117, 114, 101, 61, 34>>
\* '"'
S_quote == <<34>>
\* ": "
S_colon_space == <<58, 32>>
\* "\n"
S_nl == <<10>>
\* "?"
S_qmark == <<63>>
\* " "
S_space == <<32>>
\* ","
S_comma == <<44>>
\* the empty string
S_empty == <<>>

(* Strings used as inputs (arguments of the public methods).               *)

\* "host"
S_host == <<104, 111, 115, 116>>
\* "X-Foo"
S_X_Foo == <<88, 45, 70, 111, 111>>
\* "authorization"
S_authorization == <<97, 117, 116, 104, 111, 114, 105, 122, 97, 116, 105, 111, 110>>
\* "POST"
S_POST == <<80, 79, 83, 84>>
\* "a"
S_a == <<97>>
\* "b"
S_b == <<98>>
\* "D"
S_D == <<68>>
\* "t"
S_t == <<116>>
\* "u"
S_u == <<117>>
\* "v"
S_v == <<118>>
\* "w"
S_w == <<119>>
\* "1"
S_1 == <<49>>
\* "2"
S_2 == <<50>>
\* "1 x"
S_1_x == <<49, 32, 120>>
\* "http://g"
S_url == <<104, 116, 116, 112, 58, 47, 47, 103>>
\* "k"
S_key == <<107>>
\* "s"
S_secret == <<115>>
\* "CN"
S_CN == <<67, 78>>
\* "GD"
S_GD == <<71, 68>>
\* "name"
S_name == <<110, 97, 109, 101>>
\* "iso3"
S_iso3 == <<105, 115, 111, 51>>
\* "1.1.1.1"
S_ip_arg == <<49, 46, 49, 46, 49, 46, 49>>
\* '{"a":1}'
S_json_a1 == <<123, 34, 97, 34, 58, 49, 125>>
\* 'null'
S_json_null == <<110, 117, 108, 108>>
\* '{}'
S_json_obj == <<123, 125>>
\* '[]'
S_json_arr == <<91, 93>>
\* '<'
S_not_json == <<60>>

---------------------------------------------------------------------------
(* Library functions the source calls, computed on byte sequences.         *)

\* strings.ToLower on ASCII: 'A'..'Z' move to 'a'..'z'.
ToLower(s) ==
    [i \in 1..Len(s) |-> IF s[i] >= 65 /\ s[i] <= 90 THEN s[i] + 32 ELSE s[i]]

\* Go's string order (sort.Strings): byte-wise lexicographic, a proper
\* prefix first.
StrLess(a, b) ==
    \E i \in 1..Len(b) :
        /\ i <= Len(a) + 1
        /\ \A j \in 1..(i - 1) : a[j] = b[j]
        /\ (i = Len(a) + 1 \/ a[i] < b[i])

StrLeq(a, b) ==
    a = b \/ StrLess(a, b)

\* strings.Join(parts, sep).
RECURSIVE Join(_, _)
Join(parts, sep) ==
    IF parts = <<>> THEN <<>>
    ELSE IF Len(parts) = 1 THEN parts[1]
    ELSE parts[1] \o sep \o Join(Tail(parts), sep)

\* One hexadecimal digit, lower case (encoding/hex) or upper case (net/url).
HexDigit(n, upper) ==
    IF n < 10 THEN 48 + n ELSE (IF upper THEN 55 ELSE 87) + n

\* hex.EncodeToString: two lower-case digits per byte.
HexEncode(b) ==
    [i \in 1..(2 * Len(b)) |->
        LET c == b[(i + 1) \div 2]
        IN  IF i % 2 = 1 THEN HexDigit(c \div 16, FALSE) ELSE HexDigit(c % 16, FALSE)]

\* url.QueryEscape of one byte: unreserved bytes stay, a space becomes '+',
\* every other byte becomes %XX with upper-case digits.
EscapeByte(c) ==
    IF \/ (c >= 48 /\ c <= 57) \/ (c >= 65 /\ c <= 90) \/ (c >= 97 /\ c <= 122)
       \/ c \in {45, 95, 46, 126}
    THEN <<c>>
    ELSE IF c = 32 THEN <<43>>
    ELSE <<37, HexDigit(c \div 16, TRUE), HexDigit(c % 16, TRUE)>>

RECURSIVE QueryEscape(_)
QueryEscape(s) ==
    IF s = <<>> THEN <<>> ELSE EscapeByte(Head(s)) \o QueryEscape(Tail(s))

\* The keys of a Go map in sort.Strings order.
RECURSIVE SortedKeys(_)
SortedKeys(K) ==
    IF K = {} THEN <<>>
    ELSE LET k == CHOOSE k \in K : \A j \in K : StrLeq(k, j)
         IN  <<k>> \o SortedKeys(K \ {k})

\* "key=value" pairs of one key of url.Values, '&' before each.
RECURSIVE EncodePairs(_, _)
EncodePairs(k, vs) ==
    IF vs = <<>> THEN <<>>
    ELSE <<38>> \o QueryEscape(k) \o <<61>> \o QueryEscape(Head(vs)) \o EncodePairs(k, Tail(vs))

RECURSIVE EncodeKeys(_, _)
EncodeKeys(m, ks) ==
    IF ks = <<>> THEN <<>>
    ELSE EncodePairs(Head(ks), m[Head(ks)]) \o EncodeKeys(m, Tail(ks))

\* url.Values.Encode: keys sorted, "k=v" joined by '&'; a nil or empty map
\* encodes to the empty string.
Encode(q) ==
    LET all == EncodeKeys(q.m, SortedKeys(DOMAIN q.m))
    IN  IF all = <<>> THEN <<>> ELSE Tail(all)

\* md5 followed by hex.EncodeToString.  The digest is not computed: it is an
\* injective stand-in over lower-case hex digits that, like MD5, is not
\* empty for the empty input (MD5("") = d41d8cd9...).
S_md5_empty8 == <<100, 52, 49, 100, 56, 99, 100, 57>>

Md5Hex(b) ==
    S_md5_empty8 \o HexEncode(b)

\* base64(HMAC-SHA256(secret, msg)).  The MAC is not computed: it is an
\* injective stand-in (the key, '/', the message), a MAC without collisions.
HmacSha256Base64(secret, msg) ==
    secret \o <<47>> \o msg

\* time.Time.Format(http.TimeFormat) of the instant t seconds after the
\* epoch, for t below one minute: "Thu, 01 Jan 1970 00:00:SS GMT".
S_date_prefix == <<84, 104, 117, 44, 32, 48, 49, 32, 74, 97, 110, 32, 49, 57, 55, 48, 32, 48, 48, 58, 48, 48, 58>>
\* " GMT"
S_GMT == <<32, 71, 77, 84>>

FormatHttpTime(t) ==
    S_date_prefix \o <<48 + (t \div 10), 48 + (t % 10)>> \o S_GMT

\* A nil []byte / url.Values and a non-nil one.
NilBytes == [isNil |-> TRUE, bytes |-> <<>>]

Bytes(b) == [isNil |-> FALSE, bytes |-> b]

NilValues == [isNil |-> TRUE, m |-> <<>>]

Values(m) == [isNil |-> FALSE, m |-> m]

\* sonic.Marshal on the values SetData is given: the JSON text, or nil
\* bytes with an error for a value that has no JSON form.
Marshal(v) ==
    CASE v = "obj_a1" -> Bytes(S_json_a1)
      [] v = "nil"    -> Bytes(S_json_null)
      [] OTHER        -> NilBytes

\* sonic.Unmarshal into a map ("object") or a slice ("array").
UnmarshalOk(body, kind) ==
    \/ kind = "object" /\ body = S_json_obj
    \/ kind = "array" /\ body = S_json_arr

---------------------------------------------------------------------------
(* State.                                                                  *)

VARIABLES
    client,   \* the Client's Option: Url, Key, Secret
    clock,    \* time.Now(), in seconds since the epoch
    live,     \* whether R has returned an OpenAPI object to the caller
    req,      \* that OpenAPI object: Method, Path, Header, Query, Body
    hist,     \* what the caller did to req since R built it
    out       \* the last operation called and what it returned and transmitted

vars == <<client, clock, live, req, hist, out>>

\* The fields of OpenAPI other than the Client pointer.
Fields == {"Method", "Path", "Header", "Query", "Body"}

\* The zero OpenAPI value, held before any R.
ZeroOpenAPI ==
    [Method |-> <<>>, Path |-> <<>>, Header |-> <<>>, Query |-> NilValues, Body |-> NilBytes]

\* A Go map read: the zero value (the empty string) for a missing key.
MapGet(m, k) ==
    IF k \in DOMAIN m THEN m[k] ELSE <<>>

---------------------------------------------------------------------------
(* The request builder.                                                    *)

\* Client.R: the three default headers, x-date taken from the clock now.
R(method, path) ==
    [Method |-> method,
     Path   |-> path,
     Header |-> (S_accept :> S_application_json)
                @@ (S_source :> S_apigw_test)
                @@ (S_x_date :> FormatHttpTime(clock)),
     Query  |-> NilValues,
     Body   |-> NilBytes]

\* OpenAPI.SetHeaders: x.Header[k] = v for every pair of the argument.
SetHeaders(x, v) ==
    [x EXCEPT !.Header = v @@ x.Header]

\* A faulty SetQuery that merges the argument into the query it finds.
SetQuery_Merge(x, v) ==
    [x EXCEPT !.Query = [isNil |-> v.isNil /\ x.Query.isNil, m |-> v.m @@ x.Query.m]]

\* OpenAPI.SetQuery: x.Query = v.
SetQuery(x, v) ==
    [x EXCEPT !.Query = v]

\* OpenAPI.SetData: x.Body, _ = sonic.Marshal(v).
SetData(x, v) ==
    [x EXCEPT !.Body = Marshal(v)]

---------------------------------------------------------------------------
(* The signer.                                                             *)

\* The lower-cased names of the keys K in sort.Strings order; two keys that
\* lower-case to the same name give that name twice.
RECURSIVE SortedLower(_)
SortedLower(K) ==
    IF K = {} THEN <<>>
    ELSE LET k == CHOOSE k \in K : \A j \in K : StrLeq(ToLower(k), ToLower(j))
         IN  <<ToLower(k)>> \o SortedLower(K \ {k})

\* `headers` after sort.Strings: every key except the literal "Accept",
\* lower-cased.
HeaderNames(x) ==
    SortedLower({k \in DOMAIN x.Header : k # S_Accept})

\* The lines "%s: %s\n" of the names, each value read as x.Header[name],
\* that is, under the lower-cased name.
RECURSIVE KVLines(_, _)
KVLines(h, names) ==
    IF names = <<>> THEN <<>>
    ELSE Head(names) \o S_colon_space \o MapGet(h, Head(names)) \o S_nl
         \o KVLines(h, Tail(names))

HeadersKVString(x) ==
    KVLines(x.Header, HeaderNames(x))

\* A faulty contextMd5 that hashes the body without testing it for nil.
ContextMd5_AlwaysHash(x) ==
    Md5Hex(x.Body.bytes)

\* contextMd5: the hex MD5 of the body when x.Body != nil, else "".
ContextMd5(x) ==
    IF ~x.Body.isNil THEN Md5Hex(x.Body.bytes) ELSE S_empty

\* pathAndParameters: the path, and "?" with the encoded query when
\* x.Query != nil.
PathAndParameters(x) ==
    IF ~x.Query.isNil THEN x.Path \o S_qmark \o Encode(x.Query) ELSE x.Path

\* signToString.
SignToString(x) ==
    HeadersKVString(x) \o x.Method \o S_nl \o S_application_json \o S_nl \o S_nl
    \o ContextMd5(x) \o S_nl \o PathAndParameters(x)

\* OpenAPI.SetAuthorization: the Authorization header value.
SetAuthorization(x) ==
    S_hmac_id \o client.Key \o S_algorithm \o Join(HeaderNames(x), S_space)
    \o S_signature \o HmacSha256Base64(client.Secret, SignToString(x)) \o S_quote

---------------------------------------------------------------------------
(* Send and the endpoint methods.                                          *)

\* What the transport can answer: err is "" for success.
Ok(body) == [err |-> "", body |-> body]

Failed(e) == [err |-> e, body |-> <<>>]

\* The protocol.Request Send builds from x: the method, the URI and the
\* headers h; its body is never set.
Request(x, h) ==
    [Method |-> x.Method,
     URI    |-> client.Url \o x.Path \o S_qmark \o Encode(x.Query),
     Header |-> h,
     Body   |-> S_empty]

\* A faulty Send that signs as soon as the key is set (|| for &&).
Send_KeyOnly(x, answer) ==
    LET signed == client.Key # S_empty
    IN  [x     |-> x,
         calls |-> <<Request(x, IF signed
                                THEN (S_Authorization :> SetAuthorization(x)) @@ x.Header
                                ELSE x.Header)>>,
         resp  |-> answer.body,
         err   |-> answer.err]

\* A faulty Send that stamps x-date afresh when it sends.
Send_Restamp(x, answer) ==
    LET signed == client.Key # S_empty /\ client.Secret # S_empty
        y      == [x EXCEPT !.Header = (S_x_date :> FormatHttpTime(clock)) @@ x.Header]
    IN  [x     |-> x,
         calls |-> <<Request(y, IF signed
                                THEN (S_Authorization :> SetAuthorization(y)) @@ y.Header
                                ELSE y.Header)>>,
         resp  |-> answer.body,
         err   |-> answer.err]

\* A faulty Send that calls the transport again when it fails.
Send_Retry(x, answer) ==
    LET signed == client.Key # S_empty /\ client.Secret # S_empty
        wire   == Request(x, IF signed
                             THEN (S_Authorization :> SetAuthorization(x)) @@ x.Header
                             ELSE x.Header)
    IN  [x     |-> x,
         calls |-> IF answer.err # "" THEN <<wire, wire>> ELSE <<wire>>,
         resp  |-> answer.body,
         err   |-> answer.err]

\* A faulty Send that stores the Authorization value in the descriptor's
\* own header map before copying the map to the request.
Send_StoreAuthorization(x, answer) ==
    LET signed == client.Key # S_empty /\ client.Secret # S_empty
        y      == IF signed
                  THEN [x EXCEPT !.Header = (S_Authorization :> SetAuthorization(x)) @@ x.Header]
                  ELSE x
    IN  [x     |-> y,
         calls |-> <<Request(y, y.Header)>>,
         resp  |-> answer.body,
         err   |-> answer.err]

\* OpenAPI.Send, given the transport's answer: the descriptor afterwards,
\* the requests handed to Client.Do in order, and the values returned.
Send(x, answer) ==
    LET signed == client.Key # S_empty /\ client.Secret # S_empty
        wire   == Request(x, IF signed
                                THEN (S_Authorization :> SetAuthorization(x)) @@ x.Header
                                ELSE x.Header)
    IN  [x     |-> x,
         calls |-> <<wire>>,
         resp  |-> answer.body,
         err   |-> answer.err]

\* The body of every endpoint method after its query is built: Send, return
\* on error, else sonic.Unmarshal into a map or a slice.
Endpoint(x, kind, answer) ==
    LET s == Send(x, answer)
    IN  IF s.err # ""
        THEN [calls |-> s.calls, err |-> s.err, decoded |-> FALSE]
        ELSE [calls |-> s.calls,
              err |-> IF UnmarshalOk(s.resp, kind) THEN "" ELSE "decode",
              decoded |-> TRUE]

\* Client.Ping.
Ping(answer) ==
    Endpoint(R(S_GET, S_root), "object", answer)

\* Client.GetIp.
GetIp(ip, answer) ==
    Endpoint(SetQuery(R(S_GET, S_ip), Values(S_value :> <<ip>>)), "object", answer)

\* Client.GetCountries.
GetCountries(fields, answer) ==
    Endpoint(SetQuery(R(S_GET, S_geo_countries),
                      Values(S_fields :> <<Join(fields, S_comma)>>)),
             "array", answer)

\* Client.GetStates.
GetStates(country, fields, answer) ==
    Endpoint(SetQuery(R(S_GET, S_geo_states),
                      Values((S_country :> <<country>>)
                             @@ (S_fields :> <<Join(fields, S_comma)>>))),
             "array", answer)

\* Client.GetCities.
GetCities(country, state, fields, answer) ==
    Endpoint(SetQuery(R(S_GET, S_geo_cities),
                      Values((S_country :> <<country>>)
                             @@ (S_state :> <<state>>)
                             @@ (S_fields :> <<Join(fields, S_comma)>>))),
             "array", answer)

---------------------------------------------------------------------------
(* Inputs the callers and the transport supply.                            *)

\* Option values given to New: with and without SetApiGateway's key and
\* secret.
Keys == {S_empty, S_key}

Secrets == {S_empty, S_secret}

\* Arguments of R.
RArgs == {<<S_GET, S_ip>>}

\* Arguments of SetHeaders: lower-case keys (one overwriting x-date), a
\* mixed-case key together with the literal "Accept", and "Authorization".
HeaderArgs ==
    { (S_host :> S_a) @@ (S_x_date :> S_D),
      (S_X_Foo :> S_v) @@ (S_Accept :> S_t),
      (S_Authorization :> S_u) }

\* Arguments of SetQuery: nil, an empty map, two keys given out of order,
\* one key whose value needs escaping.
QueryArgs ==
    { NilValues,
      Values(<<>>),
      Values((S_b :> <<S_2>>) @@ (S_a :> <<S_1>>)),
      Values(S_a :> <<S_1_x>>) }

\* Arguments of SetData: a map, and a channel (which has no JSON form).
DataArgs == {"obj_a1", "chan"}

\* Answers of the transport to Send.
SendAnswers == {Ok(S_json_obj), Failed("net"), Failed("canceled")}

\* Answers of the transport to an endpoint method.
EndpointAnswers == SendAnswers \cup {Ok(S_json_arr), Ok(S_not_json)}

\* Arguments of the endpoint methods.
FieldArgs == {<<>>, <<S_name, S_iso3>>}

---------------------------------------------------------------------------
(* The state machine: one action per public method, and the clock.         *)

\* The fields of x that y holds unchanged.
Kept(x, y) ==
    {f \in Fields : x[f] = y[f]}

\* The record of an operation that transmits nothing and returns no value.
Quiet(op) ==
    [op |-> op, calls |-> <<>>, err |-> "", resp |-> <<>>, decoded |-> FALSE,
     auth |-> <<>>, kept |-> Fields, answer |-> Ok(<<>>)]

FreshHist ==
    [builtAt |-> clock, xdateSet |-> FALSE, authSet |-> FALSE,
     querySet |-> FALSE, lastQuery |-> NilValues, dropped |-> FALSE]

Init ==
    /\ client \in [Url : {S_url}, Key : Keys, Secret : Secrets]
    /\ clock = 0
    /\ live = FALSE
    /\ req = ZeroOpenAPI
    /\ hist = FreshHist
    /\ out = Quiet("New")

\* time passes.
Tick ==
    /\ clock < MaxClock
    /\ clock' = clock + 1
    /\ out' = Quiet("Tick")
    /\ UNCHANGED <<client, live, req, hist>>

CallR(method, path) ==
    /\ live' = TRUE
    /\ req' = R(method, path)
    /\ hist' = FreshHist
    /\ out' = Quiet("R")
    /\ UNCHANGED <<client, clock>>

CallSetHeaders(v) ==
    /\ live
    /\ req' = SetHeaders(req, v)
    /\ hist' = [hist EXCEPT
                   !.xdateSet = @ \/ S_x_date \in DOMAIN v,
                   !.authSet = @ \/ \E k \in DOMAIN v : ToLower(k) = S_authorization]
    /\ out' = [Quiet("SetHeaders") EXCEPT !.kept = Kept(req, req')]
    /\ UNCHANGED <<client, clock, live>>

CallSetQuery(v) ==
    /\ live
    /\ req' = SetQuery(req, v)
    /\ hist' = [hist EXCEPT
                   !.querySet = TRUE,
                   !.lastQuery = v,
                   !.dropped = \E k \in DOMAIN hist.lastQuery.m : k \notin DOMAIN v.m]
    /\ out' = [Quiet("SetQuery") EXCEPT !.kept = Kept(req, req')]
    /\ UNCHANGED <<client, clock, live>>

CallSetData(v) ==
    /\ live
    /\ req' = SetData(req, v)
    /\ out' = [Quiet("SetData") EXCEPT !.kept = Kept(req, req')]
    /\ UNCHANGED <<client, clock, live, hist>>

CallSetAuthorization ==
    /\ live
    /\ out' = [Quiet("SetAuthorization") EXCEPT !.auth = SetAuthorization(req)]
    /\ UNCHANGED <<client, clock, live, req, hist>>

CallSend(answer) ==
    /\ live
    /\ LET s == Send(req, answer)
       IN  /\ req' = s.x
           /\ out' = [op |-> "Send", calls |-> s.calls, err |-> s.err, resp |-> s.resp,
                      decoded |-> FALSE, auth |-> <<>>, kept |-> Kept(req, s.x),
                      answer |-> answer]
    /\ UNCHANGED <<client, clock, live, hist>>

\* An endpoint method builds and discards its own OpenAPI object; the model
\* calls them while the caller holds none.
Returned(op, r, answer) ==
    /\ ~live
    /\ out' = [op |-> op, calls |-> r.calls, err |-> r.err, resp |-> <<>>,
               decoded |-> r.decoded, auth |-> <<>>, kept |-> Fields,
               answer |-> answer]
    /\ UNCHANGED <<client, clock, live, req, hist>>

CallPing(answer) ==
    Returned("Ping", Ping(answer), answer)

CallGetIp(ip, answer) ==
    Returned("GetIp", GetIp(ip, answer), answer)

CallGetCountries(fields, answer) ==
    Returned("GetCountries", GetCountries(fields, answer), answer)

CallGetStates(country, fields, answer) ==
    Returned("GetStates", GetStates(country, fields, answer), answer)

CallGetCities(country, state, fields, answer) ==
    Returned("GetCities", GetCities(country, state, fields, answer), answer)

Next ==
    \/ Tick
    \/ \E a \in RArgs : CallR(a[1], a[2])
    \/ \E v \in HeaderArgs : CallSetHeaders(v)
    \/ \E v \in QueryArgs : CallSetQuery(v)
    \/ \E v \in DataArgs : CallSetData(v)
    \/ CallSetAuthorization
    \/ \E answer \in SendAnswers : CallSend(answer)
    \/ \E answer \in EndpointAnswers : CallPing(answer)
    \/ \E answer \in EndpointAnswers : CallGetIp(S_ip_arg, answer)
    \/ \E f \in FieldArgs, answer \in EndpointAnswers : CallGetCountries(f, answer)
    \/ \E f \in FieldArgs, answer \in EndpointAnswers : CallGetStates(S_CN, f, answer)
    \/ \E f \in FieldArgs, answer \in EndpointAnswers : CallGetCities(S_CN, S_GD, f, answer)

Spec == Init /\ [][Next]_vars

---------------------------------------------------------------------------
(* Vocabulary of the properties.                                           *)

\* Send signs: both the key and the secret are set.
Signed ==
    client.Key # S_empty /\ client.Secret # S_empty

\* The request the last operation handed to the transport.
Wire ==
    out.calls[1]

\* The operations that call the transport.
TransportOps ==
    {"Send", "Ping", "GetIp", "GetCountries", "GetStates", "GetCities"}

\* Whether name is one of the signed header names of x.
IsSignedName(x, name) ==
    \E i \in 1..Len(HeaderNames(x)) : HeaderNames(x)[i] = name

\* The canonical header block as the gateway's scheme defines it: one line
\* per key of K, in the order of the lower-cased keys, each with the value
\* stored under that very key.
RECURSIVE CanonicalLines(_, _)
CanonicalLines(h, K) ==
    IF K = {} THEN <<>>
    ELSE LET k == CHOOSE k \in K : \A j \in K : StrLeq(ToLower(k), ToLower(j))
         IN  ToLower(k) \o S_colon_space \o h[k] \o S_nl \o CanonicalLines(h, K \ {k})

\* The first position of byte c in s, or Len(s) + 1.
IndexByte(s, c) ==
    IF \E i \in 1..Len(s) : s[i] = c
    THEN CHOOSE i \in 1..Len(s) : s[i] = c /\ \A j \in 1..(i - 1) : s[j] # c
    ELSE Len(s) + 1

\* The path and parameters of a transmitted URI: what follows the base URL,
\* without a "?" that no parameter follows.
WirePathAndParameters(uri) ==
    LET rest  == SubSeq(uri, Len(client.Url) + 1, Len(uri))
        q     == IndexByte(rest, 63)
        path  == SubSeq(rest, 1, q - 1)
        query == SubSeq(rest, q + 1, Len(rest))
    IN  IF query = <<>> THEN path ELSE path \o S_qmark \o query

\* The Authorization value a verifier computes from a transmitted request w
\* alone: its headers other than Accept and Authorization with their
\* transmitted values, its body, its path and query.
Recomputed(w) ==
    LET K     == {k \in DOMAIN w.Header : k # S_Accept /\ k # S_Authorization}
        md5   == IF w.Body = <<>> THEN S_empty ELSE Md5Hex(w.Body)
        toSign == CanonicalLines(w.Header, K) \o w.Method \o S_nl \o S_application_json
                  \o S_nl \o S_nl \o md5 \o S_nl \o WirePathAndParameters(w.URI)
    IN  S_hmac_id \o client.Key \o S_algorithm \o Join(SortedLower(K), S_space)
        \o S_signature \o HmacSha256Base64(client.Secret, toSign) \o S_quote

---------------------------------------------------------------------------
(* C1.  After Send with a key and a secret, the Authorization header on    *)
(* the transmitted request equals the signature recomputed from the        *)
(* request as transmitted: its headers, its body, its path and query.      *)
(* Stated for the requests whose caller stored no Authorization header of  *)
(* their own.                                                              *)
C1_AuthorizationMatchesTransmitted ==
    (out.op = "Send" /\ Signed /\ ~hist.authSet) =>
        /\ S_Authorization \in DOMAIN Wire.Header
        /\ Wire.Header[S_Authorization] = Recomputed(Wire)

---------------------------------------------------------------------------
(* C2, as stated.  After Send: with an empty key or secret the transmitted *)
(* request carries no Authorization header and one transport call is       *)
(* made; with both set it carries the signer's value for the descriptor.   *)
C2_NoAuthorizationHeaderWithoutKey ==
    out.op = "Send" =>
        /\ Len(out.calls) = 1
        /\ ~Signed => S_Authorization \notin DOMAIN Wire.Header
        /\ Signed => /\ S_Authorization \in DOMAIN Wire.Header
                     /\ Wire.Header[S_Authorization] = SetAuthorization(req)

(* C2, amended.  After Send one transport call is made.  With an empty key *)
(* or secret Send adds no Authorization header: the transmitted headers    *)
(* are exactly the descriptor's, so an Authorization header is on the wire *)
(* only if the caller stored one with SetHeaders.  With both set the       *)
(* transmitted Authorization header is the signer's value for the          *)
(* descriptor and every other header is the descriptor's.                  *)
C2_SendSignsOnlyWithKeyAndSecret ==
    out.op = "Send" =>
        /\ Len(out.calls) = 1
        /\ ~Signed => Wire.Header = req.Header
        /\ Signed => /\ DOMAIN Wire.Header = DOMAIN req.Header \cup {S_Authorization}
                     /\ Wire.Header[S_Authorization] = SetAuthorization(req)
                     /\ \A k \in DOMAIN req.Header \ {S_Authorization} :
                            Wire.Header[k] = req.Header[k]

\* C2's case: Send went to the transport with a key but no secret, and no
\* Authorization header went out.
C2_Witness ==
    /\ out.op = "Send"
    /\ client.Key # S_empty /\ client.Secret = S_empty
    /\ Len(out.calls) = 1
    /\ S_Authorization \notin DOMAIN Wire.Header

---------------------------------------------------------------------------
\* The descriptors that differ from x in one input the signer reads: the
\* method, the path, the query, the body, or the value of one header other
\* than the literal "Accept" (which the scheme leaves out of the signature).
Variants(x) ==
    {[x EXCEPT !.Method = m] : m \in {S_GET, S_POST}}
    \cup {[x EXCEPT !.Path = p] : p \in {S_ip, S_root}}
    \cup {[x EXCEPT !.Query = q] : q \in QueryArgs}
    \cup {[x EXCEPT !.Body = Marshal(v)] : v \in DataArgs}
    \cup {[x EXCEPT !.Header[k] = S_w] : k \in DOMAIN x.Header \ {S_Accept}}

(* C3.  Two descriptors of one client that differ in one input give        *)
(* different signing strings and different signatures.  Stated for the     *)
(* descriptors whose caller stored no Authorization header.                *)
C3_InputSensitive ==
    (live /\ ~hist.authSet) =>
        \A y \in Variants(req) :
            y # req => /\ SignToString(y) # SignToString(req)
                       /\ SetAuthorization(y) # SetAuthorization(req)

---------------------------------------------------------------------------
(* C4.  The canonical header block holds, for each header key other than   *)
(* the literal "Accept", one line "<lower-cased key>: <stored value>\n",   *)
(* in ascending order of the lower-cased keys.  Stated for the header maps *)
(* in which the caller stored no Authorization header.                     *)
C4_CanonicalHeaderBlock ==
    (live /\ ~hist.authSet) =>
        HeadersKVString(req)
            = CanonicalLines(req.Header, {k \in DOMAIN req.Header : k # S_Accept})

---------------------------------------------------------------------------
---------------------------------------------------------------------------
(* C6.  pathAndParameters is the path, "?" and the sorted encoded query    *)
(* when a query parameter exists, and the path alone, with no trailing     *)
(* "?", when none exists, also after SetQuery with an empty set.           *)
C6_PathAndParameters ==
    live =>
        PathAndParameters(req)
            = IF DOMAIN req.Query.m # {}
              THEN req.Path \o S_qmark \o Encode(req.Query)
              ELSE req.Path

---------------------------------------------------------------------------
(* C7.  Unless SetHeaders overwrote the key x-date, the x-date that Send   *)
(* transmits and signs is the clock value at the moment R built the        *)
(* request, not the clock value at Send.                                   *)
C7_XDateFixedAtConstruction ==
    (out.op = "Send" /\ ~hist.xdateSet) =>
        /\ Wire.Header[S_x_date] = FormatHttpTime(hist.builtAt)
        /\ clock > hist.builtAt => Wire.Header[S_x_date] # FormatHttpTime(clock)
        /\ Signed =>
              Wire.Header[S_Authorization]
                  = SetAuthorization(
                        [req EXCEPT !.Header[S_x_date] = FormatHttpTime(hist.builtAt)])

\* C7's case: a signing Send after the clock moved on from R's reading.
C7_Witness ==
    /\ out.op = "Send"
    /\ Signed
    /\ ~hist.xdateSet
    /\ clock > hist.builtAt

---------------------------------------------------------------------------
(* C8.  SetQuery replaces the query: after any SetQuery calls the query    *)
(* is the last call's argument, Send's URI and signature use exactly it,   *)
(* and SetQuery leaves the method, path, headers and body as they were.    *)
C8_SetQueryReplaces ==
    /\ (live /\ hist.querySet) => req.Query = hist.lastQuery
    /\ out.op = "SetQuery" => {"Method", "Path", "Header", "Body"} \subseteq out.kept
    /\ (out.op = "Send" /\ hist.querySet) =>
          /\ Wire.URI = client.Url \o req.Path \o S_qmark \o Encode(hist.lastQuery)
          /\ Signed =>
                Wire.Header[S_Authorization]
                    = SetAuthorization([req EXCEPT !.Query = hist.lastQuery])

\* C8's case: Send after a SetQuery whose argument lacks a key of the call
\* before it.
C8_Witness ==
    /\ out.op = "Send"
    /\ hist.querySet
    /\ hist.dropped
    /\ DOMAIN hist.lastQuery.m # {}

---------------------------------------------------------------------------
(* C9.  Send and every endpoint method make exactly one transport call;    *)
(* when it fails or is cancelled they return the transport's error as it   *)
(* is and the endpoint method decodes nothing.                             *)
C9_OneCallErrorUnmodified ==
    out.op \in TransportOps =>
        /\ Len(out.calls) = 1
        /\ out.answer.err # "" => (out.err = out.answer.err /\ ~out.decoded)

\* C9's case: an endpoint method whose transport call was cancelled.
C9_Witness ==
    /\ out.op = "GetIp"
    /\ out.answer.err = "canceled"
    /\ out.err = "canceled"

---------------------------------------------------------------------------
\* Signing leaves the descriptor alone, and signing again gives the same
\* value.
SigningIsPure ==
    /\ out.op \in {"Send", "SetAuthorization"} => out.kept = Fields
    /\ out.op = "SetAuthorization" => SetAuthorization(req) = out.auth
    /\ out.op = "Send" =>
          Send(req, out.answer).calls[1].Header = Wire.Header

(* C10, as stated.  SetAuthorization and Send leave the descriptor         *)
(* unchanged, calling them again on the untouched descriptor gives the     *)
(* same Authorization value, and the Authorization header is never one of  *)
(* the signed headers.                                                     *)
C10_AuthorizationNeverSigned ==
    /\ SigningIsPure
    /\ live => ~IsSignedName(req, S_authorization)

(* C10, amended.  SetAuthorization and Send leave the descriptor           *)
(* unchanged and calling them again on the untouched descriptor gives the  *)
(* same Authorization value; the value Send computes goes only on the      *)
(* outgoing request, so "authorization" is among the signed header names   *)
(* only when the caller stored such a header with SetHeaders.              *)
C10_SigningHasNoSideEffects ==
    /\ SigningIsPure
    /\ (live /\ IsSignedName(req, S_authorization)) => hist.authSet

\* C10's case: a signing Send on a descriptor that carries the caller's own
\* Authorization header.
C10_Witness ==
    /\ out.op = "Send"
    /\ Signed
    /\ hist.authSet
    /\ out.kept = Fields

=============================================================================
